---- MODULE Spec2Model ----
(***************************************************************************)
(* CommandManager of packages/core: single-shot commands, chained commands *)
(* and the can() dry run, over one editor and one view.                    *)
(*                                                                         *)
(* The caller (depth 0) and every running command (depth = its position on *)
(* the call stack) hold at most one object obtained from the manager: the  *)
(* object returned by the `commands` getter, a chain or a can proxy.       *)
(* Registered commands are callbacks: while a command runs it may use the  *)
(* props it was given (setMeta on props.tr, props.chain(), props.can(),    *)
(* props.commands.X()) and then returns a boolean or throws.               *)
(***************************************************************************)
EXTENDS Integers, Sequences, FiniteSets

\* ---------------------------------------------------------------- bounds
MaxDepth == 2      \* commands nested on the call stack
MaxCalls == 2      \* chained calls made on the live chains, in total
MaxDispatch == 2   \* calls of view.dispatch since state.tr was last read

VARIABLES
    customState,   \* CommandManager.customState
    editorState,   \* editor.state; its versions are counted from the state
                   \* the live transaction was created on
    tr,            \* the live transaction: the one last created by state.tr
    objs,          \* objs[d + 1]: the object held at depth d
    stack,         \* the running commands, innermost last
    last           \* what the latest step did and what its call site got

vars == <<customState, editorState, tr, objs, stack, last>>

\* ------------------------------------------------------------ the values
Undefined == [src |-> "undefined", ver |-> 0]
SuppliedState == [src |-> "custom", ver |-> 0]

\* extensionManager.commands: the registered commands. "command" runs the
\* callback it is given; "throwErrorIfCalled" always throws.
rawCommands == {"command", "throwErrorIfCalled"}

\* the property names looked up on a proxy: the registered commands and a
\* name that is not registered. rawCommands holds the registered commands and
\* nothing else.
Names == rawCommands \cup {"missing"}

\* no check that the looked-up property is a function
isFunctionAny(name) == TRUE

isFunction(name) == name \in rawCommands

Bool(b) == IF b THEN "true" ELSE "false"

NoProps == [tr |-> "undefined", state |-> Undefined, dispatch |-> FALSE, shouldDispatch |-> FALSE]

NoObj == [kind |-> "none", tr |-> "undefined", props |-> NoProps, shouldDispatch |-> FALSE,
          hasStartTransaction |-> FALSE, callbacks |-> <<>>,
          underCan |-> FALSE, trace |-> <<>>, calls |-> <<>>,
          failed |-> FALSE]

NoLast == [op |-> "none", name |-> "", result |-> "", threw |-> FALSE, ran |-> FALSE,
           dispatched |-> FALSE, underCan |-> FALSE, depth |-> 0,
           hasStartTransaction |-> FALSE, shouldDispatch |-> FALSE,
           prevent |-> FALSE, callbacks |-> <<>>, trace |-> <<>>,
           calls |-> <<>>, failed |-> FALSE]

\* ------------------------------------------------- CommandManager getters
hasCustomState == customState # Undefined

state == IF customState # Undefined THEN customState ELSE editorState

\* A transaction is referred to by Live; NoTr stands for an absent startTr.
\* Every object a caller still holds was built on the live transaction.
Live == "tr"
NoTr == "undefined"

\* state.tr: a new transaction on the manager's state
NewTr == [prevent |-> FALSE, sent |-> 0]

\* buildProps ignoring shouldDispatch: dispatch is always a function
buildPropsDispatch(t, shouldDispatch) ==
    [tr |-> t, state |-> state, dispatch |-> TRUE,
     shouldDispatch |-> shouldDispatch]

buildProps(t, shouldDispatch) ==
    [tr |-> t, state |-> state, dispatch |-> shouldDispatch,
     shouldDispatch |-> shouldDispatch]

\* ----------------------------------------------------------------- depth
Depth == Len(stack)
Here == Depth + 1
Top == stack[Depth]

Init ==
    /\ customState \in {Undefined, SuppliedState}
    /\ editorState = [src |-> "editor", ver |-> 0]
    /\ tr = [prevent |-> FALSE, sent |-> 0]
    /\ objs = [d \in 1..(MaxDepth + 1) |-> NoObj]
    /\ stack = <<>>
    /\ last = NoLast

\* ------------------------------------------------------------- view, tr
\* view.dispatch(t): the view applies the transaction to the editor
ViewDispatch(t) ==
    /\ editorState.ver < MaxDispatch
    /\ editorState' = [editorState EXCEPT !.ver = @ + 1]
    /\ tr' = [tr EXCEPT !.sent = @ + 1]

NoDispatch == UNCHANGED editorState

\* tr.getMeta('preventDispatch')
getMeta(t) == t = Live /\ tr.prevent

RECURSIVE Calls(_)
Calls(i) == IF i = 0 THEN 0 ELSE Len(objs[i].callbacks) + Calls(i - 1)
InFlight == Cardinality({i \in 1..Len(stack) : stack[i].site = "chain"})
TotalCalls == Calls(MaxDepth + 1) + InFlight

Includes(seq, x) == \E i \in 1..Len(seq) : seq[i] = x

\* ---------------------------------------------------- object construction
\* createChain(startTr, shouldDispatch); uc notes whether can() is upstream
createChain(startTr, shouldDispatch, uc) ==
    [NoObj EXCEPT !.kind = "chain",
                  !.hasStartTransaction = (startTr # NoTr),
                  !.tr = Live,
                  !.shouldDispatch = shouldDispatch,
                  !.underCan = uc]

\* createCan(startTr)
createCan(startTr) ==
    [NoObj EXCEPT !.kind = "can", !.tr = Live,
                  !.props = buildProps(Live, FALSE),
                  !.underCan = TRUE]

\* the object the `commands` getter returns
commands ==
    [NoObj EXCEPT !.kind = "commands", !.tr = Live,
                  !.props = buildProps(Live, TRUE)]

\* the props a method of props.commands hands to its command
propsCommands(p) == [p EXCEPT !.dispatch = p.shouldDispatch]

\* the props can().X() hands to its command: { ...props, dispatch: undefined }
canProps(p) == [p EXCEPT !.dispatch = FALSE]

\* the caller at this depth now holds obj; `startTr || state.tr` created a
\* transaction if no startTr was given
Hold(obj, startTr) ==
    /\ objs' = [objs EXCEPT ![Here] = obj]
    /\ tr' = IF startTr # NoTr THEN tr ELSE NewTr
    /\ editorState' = IF startTr # NoTr THEN editorState
                                        ELSE [editorState EXCEPT !.ver = 0]

Frame(site, name, props, uc) ==
    [site |-> site, name |-> name, props |-> props, underCan |-> uc]

Push(f) == stack' = Append(stack, f)

\* ------------------------------------------------------ top-level calls
\* editor.commands
Commands ==
    /\ Depth = 0
    /\ Hold(commands, NoTr)
    /\ last' = NoLast
    /\ UNCHANGED <<customState, stack>>

\* editor.chain()
Chain ==
    /\ Depth = 0
    /\ Hold(createChain(NoTr, TRUE, FALSE), NoTr)
    /\ last' = NoLast
    /\ UNCHANGED <<customState, stack>>

\* editor.can()
Can ==
    /\ Depth = 0
    /\ Hold(createCan(NoTr), NoTr)
    /\ last' = NoLast
    /\ UNCHANGED <<customState, stack>>

\* a method of the object returned by `commands` is called: the command starts
Method(name) ==
    /\ Depth = 0 /\ Depth < MaxDepth
    /\ objs[Here].kind = "commands"
    /\ name \in rawCommands
    /\ Push(Frame("single", name, objs[Here].props, FALSE))
    /\ last' = NoLast
    /\ NoDispatch
    /\ UNCHANGED <<customState, tr, objs>>

\* --------------------------------------------- calls made inside a command
\* props.chain()
PropsChain ==
    /\ Depth > 0 /\ Top.name = "command"
    /\ Hold(createChain(Top.props.tr, Top.props.shouldDispatch, Top.underCan), Top.props.tr)
    /\ last' = NoLast
    /\ UNCHANGED <<customState, stack>>

\* props.can()
PropsCan ==
    /\ Depth > 0 /\ Top.name = "command"
    /\ Hold(createCan(Top.props.tr), Top.props.tr)
    /\ last' = NoLast
    /\ UNCHANGED <<customState, stack>>

\* props.commands.X(): the command starts. The caller lets go of the chain
\* or can proxy it held: a command uses one object of the manager at a time.
PropsCommand(name) ==
    /\ Depth > 0 /\ Depth < MaxDepth /\ Top.name = "command"
    /\ name \in rawCommands
    /\ Push(Frame("props", name, propsCommands(Top.props), Top.underCan))
    /\ objs' = [objs EXCEPT ![Here] = NoObj]
    /\ last' = NoLast
    /\ NoDispatch
    /\ UNCHANGED <<customState, tr>>

\* tr.setMeta('preventDispatch', true) by the running command
SetMeta ==
    /\ Depth > 0 /\ Top.name = "command"
    /\ ~tr.prevent
    /\ tr' = [tr EXCEPT !.prevent = TRUE]
    /\ last' = NoLast
    /\ NoDispatch
    /\ UNCHANGED <<customState, objs, stack>>

\* ------------------------------------------------------------ the chain
\* the call in progress at depth 0 is a chained call
InChain == Depth > 0 /\ stack[1].site = "chain"

\* o, with the chain held at depth 0 marked when a command that ran as part
\* of it, at any depth, threw or was not found
Failed(o, cond) == IF cond THEN [o EXCEPT ![1].failed = TRUE] ELSE o

\* chainedCommand recording a thrown exception as a plain false
chainedCallbackFalse(found, thrown, v) ==
    IF ~found THEN "commandNotFound"
    ELSE IF thrown THEN "false" ELSE Bool(v)

\* what chainedCommand pushes: the command was not found, threw, or returned v
chainedCallback(found, thrown, v) ==
    IF ~found THEN "commandNotFound"
    ELSE IF thrown THEN "commandError" ELSE Bool(v)

\* chainedCommand without its try/catch
chainedResultUncaught(thrown) == IF thrown THEN "throw" ELSE "chain"

\* what chainedCommand gives its caller: the chain, also after a throw
chainedResult(thrown) == "chain"

\* what happened in a chained call, whatever the chain recorded
Outcome(found, thrown, v) ==
    IF ~found THEN "notFound" ELSE IF thrown THEN "threw" ELSE Bool(v)

\* run() without the guards on the start transaction and on shouldDispatch
runDispatchesNested(c) ==
    /\ ~getMeta(c.tr)
    /\ ~hasCustomState
    /\ ~Includes(c.callbacks, "commandError")
    /\ ~Includes(c.callbacks, "commandNotFound")

\* run() dispatching only when every chained call returned true
runDispatchesAllTrue(c) ==
    /\ ~c.hasStartTransaction
    /\ c.shouldDispatch
    /\ ~getMeta(c.tr)
    /\ ~hasCustomState
    /\ \A i \in 1..Len(c.callbacks) : c.callbacks[i] = "true"

\* run() without the check for 'commandNotFound'
runDispatchesNotFound(c) ==
    /\ ~c.hasStartTransaction
    /\ c.shouldDispatch
    /\ ~getMeta(c.tr)
    /\ ~hasCustomState
    /\ ~Includes(c.callbacks, "commandError")

\* the condition under which run() calls view.dispatch(tr)
runDispatches(c) ==
    /\ ~c.hasStartTransaction
    /\ c.shouldDispatch
    /\ ~getMeta(c.tr)
    /\ ~hasCustomState
    /\ ~Includes(c.callbacks, "commandError")
    /\ ~Includes(c.callbacks, "commandNotFound")

\* run() returning whether the chain may be dispatched
runResultNoError(c) ==
    /\ ~Includes(c.callbacks, "commandError")
    /\ ~Includes(c.callbacks, "commandNotFound")

\* what run() returns
runResult(c) == \A i \in 1..Len(c.callbacks) : c.callbacks[i] = "true"

\* chainedCommand giving up once an earlier call of the chain has failed
chainedRunsWhileTrue(c, name) == isFunction(name) /\ runResult(c)

\* whether chainedCommand calls the command it looked up: whenever it is a
\* function, whatever the chain has recorded so far
chainedRuns(c, name) == isFunction(name)

\* chain.X(args): builds the props, looks X up and starts the command, or
\* records that X is no command
ChainedCommand(name) ==
    /\ objs[Here].kind = "chain"
    /\ name \in Names
    /\ TotalCalls < MaxCalls
    /\ LET c == objs[Here]
           props == buildProps(c.tr, c.shouldDispatch)
       IN  IF ~chainedRuns(c, name)
           THEN /\ objs' = Failed([objs EXCEPT
                      ![Here].callbacks = Append(@, chainedCallback(FALSE, FALSE, FALSE)),
                      ![Here].trace = Append(@, Outcome(FALSE, FALSE, FALSE)),
                      ![Here].calls = Append(@, name)], Depth = 0 \/ InChain)
                /\ last' = [NoLast EXCEPT !.op = "chained", !.name = name,
                                !.result = chainedResult(FALSE),
                                !.underCan = c.underCan,
                                !.depth = Depth,
                                !.callbacks = objs'[Here].callbacks,
                                !.trace = objs'[Here].trace,
                                !.calls = objs'[Here].calls]
                /\ UNCHANGED stack
           ELSE /\ Depth < MaxDepth
                /\ Push(Frame("chain", name, props, c.underCan))
                /\ objs' = [objs EXCEPT ![Here].calls = Append(@, name)]
                /\ last' = NoLast
    /\ NoDispatch
    /\ UNCHANGED <<customState, tr>>

\* chain.run()
Run ==
    /\ objs[Here].kind = "chain"
    /\ LET c == objs[Here]
       IN  /\ IF runDispatches(c)
              THEN ViewDispatch(c.tr)
              ELSE NoDispatch /\ UNCHANGED tr
           /\ last' = [NoLast EXCEPT !.op = "run",
                           !.result = Bool(runResult(c)),
                           !.dispatched = (tr'.sent # tr.sent),
                           !.underCan = c.underCan, !.depth = Depth,
                           !.hasStartTransaction = c.hasStartTransaction,
                           !.shouldDispatch = c.shouldDispatch,
                           !.prevent = tr.prevent,
                           !.callbacks = c.callbacks, !.trace = c.trace,
                           !.calls = c.calls, !.failed = c.failed]
    /\ UNCHANGED <<customState, objs, stack>>

\* -------------------------------------------------------------- the can
\* can().chain()
CanChain ==
    /\ objs[Here].kind = "can"
    /\ Hold(createChain(objs[Here].tr, FALSE, TRUE), objs[Here].tr)
    /\ last' = NoLast
    /\ UNCHANGED <<customState, stack>>

\* can().X() without its try/catch
canResultUncaught(thrown, v) == IF thrown THEN "throw" ELSE Bool(v)

\* what can().X() returns when its command returned v, or threw
canResult(thrown, v) == IF thrown THEN "false" ELSE Bool(v)

alwaysReturnFalse == "false"

\* can().X(args) for X other than chain: alwaysReturnFalse when X is no
\* command, else the command starts with dispatch undefined
CanCommand(name) ==
    /\ objs[Here].kind = "can"
    /\ name \in Names
    /\ IF ~isFunction(name)
       THEN /\ last' = [NoLast EXCEPT !.op = "canCall", !.name = name,
                            !.result = alwaysReturnFalse, !.underCan = TRUE,
                            !.depth = Depth]
            /\ UNCHANGED stack
       ELSE /\ Depth < MaxDepth
            /\ Push(Frame("can", name, canProps(objs[Here].props), TRUE))
            /\ last' = NoLast
    /\ NoDispatch
    /\ UNCHANGED <<customState, tr, objs>>

\* ------------------------------------------------- the end of a command
\* what a method of `commands` gives its caller when its command returned v,
\* or threw ("throw": the exception leaves the method)
methodResult(thrown, v) == IF thrown THEN "throw" ELSE Bool(v)

\* a method of `commands` without the check of hasCustomState
methodDispatchesCustom(thrown, t) == ~thrown /\ ~getMeta(t)

\* whether a method of `commands` calls view.dispatch(tr) after its command
methodDispatches(thrown, t) == ~thrown /\ ~getMeta(t) /\ ~hasCustomState

\* what a method of props.commands gives its caller
propsCommandResult(thrown, v) == IF thrown THEN "throw" ELSE Bool(v)

\* the innermost command returns v (thrown = FALSE) or throws, and its call
\* site goes on: chainedCommand records the outcome and returns the chain,
\* can().X() and the single commands hand the result to their caller
Finish(thrown, v) ==
    /\ Depth > 0
    /\ LET f == Top
           c == objs[Depth]
           out == [NoLast EXCEPT !.name = f.name, !.threw = thrown, !.ran = TRUE,
                                 !.underCan = f.underCan, !.depth = Depth - 1]
       IN  /\ stack' = SubSeq(stack, 1, Depth - 1)
           /\ CASE f.site = "chain" ->
                    /\ objs' = Failed([objs EXCEPT
                          ![Here] = NoObj,
                          ![Depth].callbacks = Append(@, chainedCallback(TRUE, thrown, v)),
                          ![Depth].trace = Append(@, Outcome(TRUE, thrown, v))],
                          thrown /\ InChain)
                    /\ last' = [out EXCEPT !.op = "chained",
                          !.result = chainedResult(thrown),
                          !.callbacks = objs'[Depth].callbacks,
                          !.trace = objs'[Depth].trace,
                          !.calls = objs'[Depth].calls]
                    /\ NoDispatch /\ UNCHANGED tr
                [] f.site = "can" ->
                    /\ objs' = Failed([objs EXCEPT ![Here] = NoObj],
                                      thrown /\ InChain)
                    /\ last' = [out EXCEPT !.op = "canCall",
                                           !.result = canResult(thrown, v)]
                    /\ NoDispatch /\ UNCHANGED tr
                [] f.site = "single" ->
                    /\ objs' = [objs EXCEPT ![Here] = NoObj]
                    /\ IF methodDispatches(thrown, c.tr)
                       THEN ViewDispatch(c.tr)
                       ELSE NoDispatch /\ UNCHANGED tr
                    /\ last' = [out EXCEPT !.op = "method",
                          !.result = methodResult(thrown, v),
                          !.dispatched = (tr'.sent # tr.sent),
                          !.prevent = tr.prevent]
                [] f.site = "props" ->
                    /\ objs' = Failed([objs EXCEPT ![Here] = NoObj],
                                      thrown /\ InChain)
                    /\ last' = [out EXCEPT !.op = "propsCommand",
                                           !.result = propsCommandResult(thrown, v)]
                    /\ NoDispatch /\ UNCHANGED tr
    /\ UNCHANGED customState

\* the running command returns v
Return(v) == Depth > 0 /\ Top.name = "command" /\ Finish(FALSE, v)

\* the running command throws
Throw == Finish(TRUE, FALSE)

Next ==
    \/ Commands
    \/ Chain
    \/ Can
    \/ \E name \in rawCommands : Method(name)
    \/ PropsChain
    \/ PropsCan
    \/ \E name \in rawCommands : PropsCommand(name)
    \/ SetMeta
    \/ \E name \in Names : ChainedCommand(name)
    \/ Run
    \/ CanChain
    \/ \E name \in Names : CanCommand(name)
    \/ \E v \in BOOLEAN : Return(v)
    \/ Throw

Spec == Init /\ [][Next]_vars

\* ------------------------------------------------------------ well-formed
TypeOK ==
    /\ customState \in {Undefined, SuppliedState}
    /\ Depth \in 0..MaxDepth
    /\ editorState.ver \in 0..MaxDispatch
    /\ tr.sent \in 0..MaxDispatch
    /\ TotalCalls \in 0..MaxCalls
    /\ \A i \in 1..(MaxDepth + 1) :
          /\ objs[i].kind # "none" => objs[i].tr = Live /\ i <= Here
          /\ objs[i].kind \in {"none", "commands", "chain", "can"}
    /\ \A i \in 1..Depth : stack[i].props.tr = Live

\* ================================================================ claims
RunAtTop == last.op = "run" /\ last.depth = 0

\* C1: when the command of can().X(args) throws, the call returns false and
\* no exception leaves it.
C1_CanThrowReturnsFalse ==
    (last.op = "canCall" /\ last.threw) => last.result = "false"

C1_Witness ==
    /\ last.op = "canCall" /\ last.depth = 0
    /\ last.ran /\ last.threw /\ last.result = "false"

\* C2: in a chain one of whose commands threw, every chained call returns the
\* chain (no exception leaves it) and run() returns false without throwing,
\* wherever the throwing command stands and whatever the others returned.
C2_ChainThrowRunsFalse ==
    /\ (last.op = "chained" /\ Includes(last.trace, "threw"))
          => last.result = "chain"
    /\ (last.op = "run" /\ Includes(last.trace, "threw"))
          => last.result = "false"

C2_Witness ==
    /\ RunAtTop /\ last.trace = <<"threw", "true">>
    /\ last.result = "false"

\* C3: a command called through `commands` or props.commands that throws
\* yields false at the call site and the exception does not propagate.
C3_SingleThrowReturnsFalse ==
    (last.op \in {"method", "propsCommand"} /\ last.threw)
        => last.result = "false"

\* C4: every command running under can() was handed props.dispatch undefined:
\* the command of can().X(), each command of can().chain(), and the commands
\* reached from those through props.chain(), props.can() or props.commands.
C4_CanDispatchUndefined ==
    \A i \in 1..Depth : stack[i].underCan => ~stack[i].props.dispatch

C4_Witness ==
    /\ Depth = 2
    /\ stack[1].site = "chain" /\ stack[1].underCan
    /\ stack[2].site = "chain" /\ stack[2].underCan
    /\ ~stack[2].props.dispatch

\* a step taken on a can proxy, on a chain derived from can(), or by or for a
\* command running under can()
StepUnderCan ==
    IF Depth > 0 /\ Len(stack') < Depth
    THEN Top.underCan
    ELSE objs[Here].underCan \/ (Depth > 0 /\ Top.underCan)

\* C5: no step taken under can() calls view.dispatch or changes editor.state.
C5_CanNeverDispatches ==
    [][StepUnderCan => (editorState' = editorState /\ tr'.sent = tr.sent)]_vars

C5_Witness ==
    /\ RunAtTop /\ last.underCan /\ customState = Undefined
    /\ last.callbacks = <<"true", "true">> /\ ~last.prevent
    /\ last.result = "true" /\ ~last.dispatched

\* C6: run() of a chain created by chain(), on a manager without custom
\* state, calls view.dispatch exactly when the transaction has no
\* 'preventDispatch' meta and no outcome is 'commandError' or
\* 'commandNotFound'; outcomes false do not matter.
C6_RunDispatchesIff ==
    (RunAtTop /\ ~last.hasStartTransaction /\ customState = Undefined)
        => (last.dispatched <=>
               /\ ~last.prevent
               /\ ~Includes(last.callbacks, "commandError")
               /\ ~Includes(last.callbacks, "commandNotFound"))

C6_Witness ==
    /\ RunAtTop /\ ~last.hasStartTransaction /\ customState = Undefined
    /\ last.callbacks = <<"false", "true">> /\ last.dispatched

\* C7: a chained call of a name that is no registered command runs nothing,
\* records 'commandNotFound' and returns the chain, which still takes calls;
\* run() of a chain with such a call returns false and does not dispatch.
C7_ChainNotFound ==
    /\ (last.op = "chained" /\ last.name \notin rawCommands)
          => /\ last.result = "chain" /\ ~last.ran
             /\ last.callbacks[Len(last.callbacks)] = "commandNotFound"
             /\ objs[last.depth + 1].kind = "chain"
             /\ objs[last.depth + 1].callbacks = last.callbacks
    /\ (last.op = "run" /\ Includes(last.trace, "notFound"))
          => (last.result = "false" /\ ~last.dispatched)

C7_Witness ==
    /\ RunAtTop /\ ~last.hasStartTransaction /\ customState = Undefined
    /\ last.trace = <<"notFound", "true">> /\ ~last.prevent
    /\ last.result = "false" /\ ~last.dispatched

\* C8: can().name(args) for a name other than 'chain' that is no registered
\* command returns false, does not throw and runs no command.
C8_CanNotFound ==
    (last.op = "canCall" /\ last.name \notin rawCommands)
        => (last.result = "false" /\ ~last.ran /\ ~last.threw)

C8_Witness ==
    /\ last.op = "canCall" /\ last.name = "missing" /\ last.depth = 0
    /\ last.result = "false" /\ Depth = 0

\* C9: a manager built with a state of its own never calls view.dispatch, and
\* the props of its commands are built on that state, not on editor.state.
C9_CustomStateNoDispatch ==
    hasCustomState =>
        /\ tr.sent = 0 /\ editorState.ver = 0 /\ ~last.dispatched
        /\ \A i \in 1..Depth : stack[i].props.state = customState

C9_Witness ==
    /\ hasCustomState /\ last.op = "method" /\ last.result = "true"
    /\ ~last.prevent /\ ~last.dispatched

\* C10: run() returns true exactly when every chained call's command ran and
\* returned true (also for no call at all), dispatched or not.
C10_RunTrueIffAllTrue ==
    last.op = "run" =>
        (last.result = "true" <=>
            \A i \in 1..Len(last.trace) : last.trace[i] = "true")

C10_Witness ==
    /\ RunAtTop /\ ~last.hasStartTransaction /\ customState = Undefined
    /\ last.trace = <<"true", "false">>
    /\ last.result = "false" /\ last.dispatched

\* what a chain must hold for one chained call of name, given what the command
\* did (did): an unregistered name is recorded as not found and runs nothing,
\* a registered command ran and its outcome is recorded
Recorded(name, callback, did) ==
    IF name \in rawCommands
    THEN /\ did \in {"true", "false", "threw"}
         /\ (name = "throwErrorIfCalled" => did = "threw")
         /\ callback = (IF did = "threw" THEN "commandError" ELSE did)
    ELSE did = "notFound" /\ callback = "commandNotFound"

\* C11: a chained call runs its command at the time of the call, on the
\* chain's own transaction, also after an earlier call returned false, threw
\* or was not found; no call is pending when the caller goes on, and at run()
\* the outcome list holds one entry per chained call, in call order.
C11_ChainEagerInOrder ==
    /\ \A i \in 1..Depth : stack[i].site = "chain" =>
          /\ objs[i].kind = "chain" /\ stack[i].props.tr = objs[i].tr
          /\ Len(objs[i].calls) = Len(objs[i].callbacks) + 1
          /\ objs[i].calls[Len(objs[i].calls)] = stack[i].name
    /\ \A i \in 1..(MaxDepth + 1) :
          (objs[i].kind = "chain" /\ ~(i <= Depth /\ stack[i].site = "chain"))
             => Len(objs[i].calls) = Len(objs[i].callbacks)
    /\ last.op = "run" =>
          /\ Len(last.callbacks) = Len(last.calls)
          /\ Len(last.trace) = Len(last.calls)
          /\ \A k \in 1..Len(last.calls) :
                Recorded(last.calls[k], last.callbacks[k], last.trace[k])

C11_Witness ==
    /\ RunAtTop /\ last.calls = <<"throwErrorIfCalled", "command">>
    /\ last.callbacks = <<"commandError", "true">>

\* a step that calls view.dispatch
Dispatches == tr'.sent > tr.sent

\* C12: view.dispatch is called only by the outermost call site, run() of a
\* chain from chain() or a method of `commands`, once per call and when no
\* command is running any more; chains from props.chain() and methods of
\* props.commands never call it.
C12_OnlyOutermostDispatches ==
    [][Dispatches =>
          /\ tr'.sent = tr.sent + 1
          /\ stack' = <<>>
          /\ \/ Depth = 0 /\ objs[Here].kind = "chain"
                          /\ ~objs[Here].hasStartTransaction
             \/ Depth = 1 /\ Top.site = "single"]_vars

C12_Witness ==
    /\ last.op = "run" /\ last.depth = 1 /\ Depth = 1 /\ stack[1].site = "single"
    /\ ~last.underCan /\ customState = Undefined /\ ~last.prevent
    /\ last.callbacks = <<"true">> /\ last.result = "true"
    /\ ~last.dispatched /\ tr.sent = 0

\* run() of a chain created by chain(), on a manager that would dispatch
TopRun ==
    /\ RunAtTop /\ ~last.hasStartTransaction
    /\ customState = Undefined /\ ~last.prevent

\* C13 as stated: if any command that ran as part of a top-level chain threw
\* or was not found, also inside a chain nested through props.chain(), run()
\* does not dispatch.
C13_AnyFailureStopsDispatch ==
    (TopRun /\ last.failed) => ~last.dispatched

\* C13 as amended: if a command called directly on the top-level chain threw
\* or was not found, run() does not dispatch.
C13_DirectFailureStopsDispatch ==
    (TopRun /\ \E k \in 1..Len(last.trace) :
                  last.trace[k] \in {"threw", "notFound"})
        => ~last.dispatched

C13_Witness ==
    /\ TopRun /\ last.trace = <<"true", "threw">>
    /\ ~last.dispatched /\ tr.sent = 0

\* C14: no transaction is passed to view.dispatch more than once, also when
\* run() is called again on a chain or several methods of one `commands`
\* object are called.
C14_NoTransactionDispatchedTwice == tr.sent <= 1

====
